---- MODULE Spec2Model ----
(***************************************************************************)
(* btcmdata: the data-access layer over Redis (src/redis).                 *)
(*                                                                         *)
(*   mod.rs     the connection provider: a OnceCell singleton holding the  *)
(*              client and one multiplexed connection.                     *)
(*   groups.rs  group:<id>                               (set)             *)
(*   users.rs   users:<id>, del_users:<id>               (hash)            *)
(*              conts_user:<id>, conts_group:<id>        (set)             *)
(*   device.rs  client_device:<id>                       (set)             *)
(*              client_device:<id>:<dev>                 (hash)            *)
(*                                                                         *)
(* Every accessor builds a key with format!, sends one Redis command and   *)
(* converts the reply into its Rust return type.  The store is modelled by *)
(* what the commands the code sends do to it.                              *)
(***************************************************************************)
EXTENDS Integers, Sequences, FiniteSets, TLC

VARIABLES
    store,       \* the Redis keyspace: key string -> value
    written,     \* history: the keys a command has ever created or changed
    last,        \* the accessor call that returned (or panicked) last
    prev,        \* the accessor call before it
    ncalls,      \* number of accessor calls made so far
    link,        \* the connection to the store: "up", or "down" (commands fail)
    singleton,   \* SINGLETON_REDIS_DB_MANAGER: None or the stored manager
    pc,          \* per task: where it is inside init_redis_database
    clt_,        \* per task: the local `clt` of init_redis_database
    con_,        \* per task: the local `con` of init_redis_database
    seenAtCall,  \* per task: what the singleton held when its init call began
    ret,         \* per task: what its last mod.rs call returned
    nclients,    \* history: number of redis::Client values opened
    nattempts,   \* history: number of connection attempts made
    nconns,      \* history: number of connections opened to the store
    ninits,      \* history: number of init_redis_database calls started
    failedEmpty, \* history: an init call returned Err while the cell was empty
    tpc,         \* per task: "idle", "sent" (command in flight), "replied"
    treq,        \* per task: the accessor call it is in
    tstart,      \* per task, history: the keyspace when its call began
    trep,        \* per task: the converted reply on its way back
    tret,        \* per task: what its last completed accessor call returned
    arrivals,    \* history: the commands in the order they reached the store
    nsends       \* number of accessor calls begun by the tasks

storeVars == <<store, written, last, prev, ncalls, link>>
connVars  == <<singleton, pc, clt_, con_, seenAtCall, ret,
               nclients, nattempts, nconns, ninits, failedEmpty>>
taskVars  == <<tpc, treq, tstart, trep, tret, arrivals, nsends>>
vars      == <<store, written, last, prev, ncalls, link,
               singleton, pc, clt_, con_, seenAtCall, ret,
               nclients, nattempts, nconns, ninits, failedEmpty,
               tpc, treq, tstart, trep, tret, arrivals, nsends>>

----------------------------------------------------------------------------
(* Bounds and input domains *)

MaxCalls == 2               \* accessor calls per behaviour of Spec
MaxUserCalls == 4           \* accessor calls per behaviour of SpecUserRecord
MaxDeleteCalls == 3         \* accessor calls per behaviour of SpecWholeKey
MaxInits == 3               \* init_redis_database calls per behaviour
MaxSetCalls == 3            \* accessor calls per behaviour of SpecSetMembers
MaxTaskCalls == 3           \* accessor calls begun by the concurrent tasks
MaxFaultCalls == 2          \* accessor calls per behaviour of SpecFaults
MaxHashCalls == 3           \* accessor calls per behaviour of SpecHashRecords

ClientIDs == {1, 12}        \* ClientID values (u64)
DevIDs    == {2}            \* device sub-identifiers (u32)
Members   == {456, 789}     \* u64 members of the set payloads
Fields    == {"name", "type"}
FieldVals == {"Device1", "Phone"}

\* HashSet<u64> payloads, the empty one included.
SetPayloads == SUBSET Members

\* HashMap<String, String> payloads: the empty map and the one- and
\* two-field maps over Fields.
HashPayloads ==
    UNION { [D -> FieldVals] : D \in SUBSET Fields }

\* The member sets the concurrent tasks add and remove.
MemberSets == SetPayloads \ {{}}

\* The complete user records the concurrent tasks write.
UserRecords == { hm \in [Fields -> FieldVals] : hm["type"] = "Phone" }

----------------------------------------------------------------------------
(* Key builders: format!("{}{}", PREFIX, id) *)

GROUP_PREFIX         == "group:"
USER_PREFIX          == "users:"
DEL_USER_PREFIX      == "del_users:"
USER_CONTS_PREFIX    == "conts_user:"
GROUP_CONTS_PREFIX   == "conts_group:"
CLIENT_DEVICE_PREFIX == "client_device:"

get_group_key(clt)        == GROUP_PREFIX \o ToString(clt)
get_user_key(clt)         == USER_PREFIX \o ToString(clt)
get_del_user_key(clt)     == DEL_USER_PREFIX \o ToString(clt)
get_user_conts_key(clt)   == USER_CONTS_PREFIX \o ToString(clt)
get_group_conts_key(clt)  == GROUP_CONTS_PREFIX \o ToString(clt)
get_clt_dev_list_key(clt) == CLIENT_DEVICE_PREFIX \o ToString(clt)
\* Variant of get_clt_dev_hash_key that leaves out the ":" between the ids.
get_clt_dev_hash_key_unseparated(clt, dev) ==
    CLIENT_DEVICE_PREFIX \o ToString(clt) \o ToString(dev)

get_clt_dev_hash_key(clt, dev) ==
    CLIENT_DEVICE_PREFIX \o ToString(clt) \o ":" \o ToString(dev)

----------------------------------------------------------------------------
(* Values of the keyspace and the wire encoding of u64 members *)

EmptyMap == [f \in {} |-> ""]

Absent     == [type |-> "none", members |-> {}, fields |-> EmptyMap]
SetVal(S)  == [type |-> "set",  members |-> S,  fields |-> EmptyMap]
HashVal(h) == [type |-> "hash", members |-> {}, fields |-> h]

Lookup(st, key) == IF key \in DOMAIN st THEN st[key] ELSE Absent

Put(st, key, v) == [k \in DOMAIN st \cup {key} |-> IF k = key THEN v ELSE st[k]]

Drop(st, key) == [k \in DOMAIN st \ {key} |-> st[k]]

\* ToRedisArgs for HashSet<u64>: each member is sent as its decimal text.
ArgsOfSet(hs) == { ToString(m) : m \in hs }

\* FromRedisValue for HashSet<u64>: each bulk string is parsed as a u64.
ParseU64(s) == CHOOSE n \in Members : ToString(n) = s

SetOfReply(strs) == { ParseU64(s) : s \in strs }

----------------------------------------------------------------------------
(* The store's commands.  Each takes the keyspace and returns the keyspace *)
(* after the command and the reply sent back.                              *)

Reply(tag, n, strs, map) == [tag |-> tag, n |-> n, strs |-> strs, map |-> map]

IntReply(n)     == Reply("int", n, {}, EmptyMap)
ArrayReply(S)   == Reply("array", 0, S, EmptyMap)
MapReply(h)     == Reply("map", 0, {}, h)
OkayReply       == Reply("okay", 0, {}, EmptyMap)
ErrorReply(why) == Reply("error", 0, {why}, EmptyMap)

Done(st, reply) == [store |-> st, reply |-> reply]

\* What query_async gets for a command the store would answer with r: r
\* itself, or an I/O error (the command is not executed) when the
\* connection is down.
Transport(st, r) ==
    IF link = "down" THEN Done(st, ErrorReply("io error")) ELSE r

WrongType(st, key, type) == Lookup(st, key).type \notin {"none", type}

\* SADD key member [member ...]
SADD(st, key, strs) ==
    Transport(st,
      IF strs = {} THEN Done(st, ErrorReply("wrong number of arguments"))
      ELSE IF WrongType(st, key, "set") THEN Done(st, ErrorReply("WRONGTYPE"))
      ELSE LET old == Lookup(st, key).members
           IN  Done(Put(st, key, SetVal(old \cup strs)),
                    IntReply(Cardinality(strs \ old))))

\* SREM key member [member ...]; a set left empty is removed with its key.
SREM(st, key, strs) ==
    Transport(st,
      IF strs = {} THEN Done(st, ErrorReply("wrong number of arguments"))
      ELSE IF WrongType(st, key, "set") THEN Done(st, ErrorReply("WRONGTYPE"))
      ELSE LET old  == Lookup(st, key).members
               left == old \ strs
           IN  Done(IF key \notin DOMAIN st THEN st
                    ELSE IF left = {} THEN Drop(st, key)
                    ELSE Put(st, key, SetVal(left)),
                    IntReply(Cardinality(old \cap strs))))

\* SMEMBERS key
SMEMBERS(st, key) ==
    Transport(st,
      IF WrongType(st, key, "set") THEN Done(st, ErrorReply("WRONGTYPE"))
      ELSE Done(st, ArrayReply(Lookup(st, key).members)))

\* HSET key field value [field value ...]
HSET(st, key, hm) ==
    Transport(st,
      IF DOMAIN hm = {} THEN Done(st, ErrorReply("wrong number of arguments"))
      ELSE IF WrongType(st, key, "hash") THEN Done(st, ErrorReply("WRONGTYPE"))
      ELSE LET old == Lookup(st, key).fields
               new == [f \in DOMAIN old \cup DOMAIN hm |->
                          IF f \in DOMAIN hm THEN hm[f] ELSE old[f]]
           IN  Done(Put(st, key, HashVal(new)),
                    IntReply(Cardinality(DOMAIN hm \ DOMAIN old))))

\* HGETALL key
HGETALL(st, key) ==
    Transport(st,
      IF WrongType(st, key, "hash") THEN Done(st, ErrorReply("WRONGTYPE"))
      ELSE Done(st, MapReply(Lookup(st, key).fields)))

\* EXISTS key
EXISTS(st, key) ==
    Transport(st, Done(st, IntReply(IF key \in DOMAIN st THEN 1 ELSE 0)))

\* DEL key
DEL(st, key) ==
    Transport(st,
      IF key \in DOMAIN st THEN Done(Drop(st, key), IntReply(1))
      ELSE Done(st, IntReply(0)))

\* RENAME key newkey: an error when key is missing; newkey is overwritten.
RENAME(st, key, newkey) ==
    Transport(st,
      IF key \notin DOMAIN st THEN Done(st, ErrorReply("no such key"))
      ELSE IF key = newkey THEN Done(st, OkayReply)
      ELSE Done(Put(Drop(st, key), newkey, st[key]), OkayReply))

----------------------------------------------------------------------------
(* What a call gives back to its caller *)

Result(tag, b, hs, hm) == [tag |-> tag, b |-> b, hs |-> hs, hm |-> hm]

NoResult    == Result("none", FALSE, {}, EmptyMap)
Panic       == Result("panic", FALSE, {}, EmptyMap)
Unit        == Result("unit", FALSE, {}, EmptyMap)
Ok(b)       == Result("ok", b, {}, EmptyMap)
Err         == Result("err", FALSE, {}, EmptyMap)
SetResult(S) == Result("set", FALSE, S, EmptyMap)
MapResult(h) == Result("map", FALSE, {}, h)

\* FromRedisValue for bool: an integer is true when non-zero, OK is true.
BoolOfReply(reply) ==
    IF reply.tag = "int" THEN Ok(reply.n # 0)
    ELSE IF reply.tag = "okay" THEN Ok(TRUE)
    ELSE Err

\* `let _: () = query_async(..).await.unwrap()`
UnwrapUnit(reply) == IF reply.tag = "error" THEN Panic ELSE Unit

\* `let result: HashSet<u64> = query_async(..).await.unwrap()`
UnwrapSet(reply) ==
    IF reply.tag = "array" THEN SetResult(SetOfReply(reply.strs)) ELSE Panic

\* `let result: HashMap<String, String> = query_async(..).await.unwrap()`
UnwrapMap(reply) ==
    IF reply.tag = "map" THEN MapResult(reply.map) ELSE Panic

\* `let result: bool = con.exists(key).await.unwrap(); Ok(result)`
UnwrapBool(reply) ==
    IF BoolOfReply(reply).tag = "ok" THEN BoolOfReply(reply) ELSE Panic

\* `con.rename(user_key, del_user_key).await`: the RedisResult<bool> as it is.
AsResult(reply) == BoolOfReply(reply)

----------------------------------------------------------------------------
(* The accessors, as functions of the keyspace: the keyspace after the     *)
(* call and what the caller gets.                                          *)

Outcome(r, res) == [store |-> r.store, res |-> res]

\* groups.rs
\* Variant of add_group that replaces the set instead of adding to it.
add_group_replacing(st, clt, hs) ==
    LET r == SADD(Drop(st, get_group_key(clt)), get_group_key(clt),
                  ArgsOfSet(hs))
    IN  Outcome(r, UnwrapUnit(r.reply))

add_group(st, clt, hs) ==
    LET r == SADD(st, get_group_key(clt), ArgsOfSet(hs))
    IN  Outcome(r, UnwrapUnit(r.reply))

\* Variant of del_group that sends SADD where SREM is meant.
del_group_sadd(st, clt, hs) ==
    LET r == SADD(st, get_group_key(clt), ArgsOfSet(hs))
    IN  Outcome(r, UnwrapUnit(r.reply))

\* Variant of del_group that sends only the first member of hs.
del_group_first(st, clt, hs) ==
    LET args == IF hs = {} THEN {}
                ELSE {ToString(CHOOSE m \in hs : \A n \in hs : m <= n)}
        r == SREM(st, get_group_key(clt), args)
    IN  Outcome(r, UnwrapUnit(r.reply))

\* Variant of del_group that removes the whole set.
del_group_all(st, clt, hs) ==
    LET r == DEL(st, get_group_key(clt))
    IN  Outcome(r, UnwrapUnit(r.reply))

del_group(st, clt, hs) ==
    LET r == SREM(st, get_group_key(clt), ArgsOfSet(hs))
    IN  Outcome(r, UnwrapUnit(r.reply))

get_group(st, clt) ==
    LET r == SMEMBERS(st, get_group_key(clt))
    IN  Outcome(r, UnwrapSet(r.reply))

\* Variant of exists_group that answers Ok(false) when the command fails.
exists_group_coerce(st, clt) ==
    LET r == EXISTS(st, get_group_key(clt))
    IN  Outcome(r, IF r.reply.tag = "error" THEN Ok(FALSE)
                   ELSE UnwrapBool(r.reply))

exists_group(st, clt) ==
    LET r == EXISTS(st, get_group_key(clt))
    IN  Outcome(r, UnwrapBool(r.reply))

remove_group(st, clt) ==
    LET r == DEL(st, get_group_key(clt))
    IN  Outcome(r, UnwrapBool(r.reply))

\* users.rs: the user record
\* Variant of add_user that replaces the record instead of extending it.
add_user_replacing(st, clt, hm) ==
    LET r == HSET(Drop(st, get_user_key(clt)), get_user_key(clt), hm)
    IN  Outcome(r, UnwrapUnit(r.reply))

add_user(st, clt, hm) ==
    LET r == HSET(st, get_user_key(clt), hm)
    IN  Outcome(r, UnwrapUnit(r.reply))

get_user(st, clt) ==
    LET r == HGETALL(st, get_user_key(clt))
    IN  Outcome(r, UnwrapMap(r.reply))

\* Variant of exists_user that looks at the deleted-user key.
exists_user_del_key(st, clt) ==
    LET r == EXISTS(st, get_del_user_key(clt))
    IN  Outcome(r, UnwrapBool(r.reply))

exists_user(st, clt) ==
    LET r == EXISTS(st, get_user_key(clt))
    IN  Outcome(r, UnwrapBool(r.reply))

\* Variant of remove_user that deletes the key instead of renaming it.
remove_user_del(st, clt) ==
    LET r == DEL(st, get_user_key(clt))
    IN  Outcome(r, UnwrapBool(r.reply))

\* Variant of remove_user that turns a failed RENAME into Ok(false).
remove_user_coerce(st, clt) ==
    LET r == RENAME(st, get_user_key(clt), get_del_user_key(clt))
    IN  Outcome(r, IF r.reply.tag = "error" THEN Ok(FALSE)
                   ELSE AsResult(r.reply))

\* Variant of remove_user that copies the fields into del_users:<id> with
\* HSET and then deletes users:<id>, so an older deleted record is merged.
remove_user_merge(st, clt) ==
    IF get_user_key(clt) \notin DOMAIN st
    THEN Outcome(RENAME(st, get_user_key(clt), get_del_user_key(clt)), Err)
    ELSE LET copied == HSET(st, get_del_user_key(clt),
                            Lookup(st, get_user_key(clt)).fields)
             r == DEL(copied.store, get_user_key(clt))
         IN  Outcome(r, UnwrapBool(r.reply))

\* Variant of remove_user that deletes the record for good and reports success.
remove_user_unlink(st, clt) ==
    LET r == DEL(st, get_user_key(clt))
    IN  Outcome(r, Ok(TRUE))

remove_user(st, clt) ==
    LET r == RENAME(st, get_user_key(clt), get_del_user_key(clt))
    IN  Outcome(r, AsResult(r.reply))

\* users.rs: user contacts
add_user_contacts(st, clt, hs) ==
    LET r == SADD(st, get_user_conts_key(clt), ArgsOfSet(hs))
    IN  Outcome(r, UnwrapUnit(r.reply))

del_user_contacts(st, clt, hs) ==
    LET r == SREM(st, get_user_conts_key(clt), ArgsOfSet(hs))
    IN  Outcome(r, UnwrapUnit(r.reply))

get_user_contacts(st, clt) ==
    LET r == SMEMBERS(st, get_user_conts_key(clt))
    IN  Outcome(r, UnwrapSet(r.reply))

\* users.rs: group contacts
add_group_contacts(st, clt, hs) ==
    LET r == SADD(st, get_group_conts_key(clt), ArgsOfSet(hs))
    IN  Outcome(r, UnwrapUnit(r.reply))

del_group_contacts(st, clt, hs) ==
    LET r == SREM(st, get_group_conts_key(clt), ArgsOfSet(hs))
    IN  Outcome(r, UnwrapUnit(r.reply))

get_group_contacts(st, clt) ==
    LET r == SMEMBERS(st, get_group_conts_key(clt))
    IN  Outcome(r, UnwrapSet(r.reply))

\* device.rs: the device list
\* Variant of add_dev2clt that sends nothing for an empty set and returns.
add_dev2clt_skip_empty(st, clt, devs) ==
    IF devs = {} THEN [store |-> st, res |-> Unit]
    ELSE LET r == SADD(st, get_clt_dev_list_key(clt), ArgsOfSet(devs))
         IN  Outcome(r, UnwrapUnit(r.reply))

add_dev2clt(st, clt, devs) ==
    LET r == SADD(st, get_clt_dev_list_key(clt), ArgsOfSet(devs))
    IN  Outcome(r, UnwrapUnit(r.reply))

\* Variant of del_dev4clt that removes the whole device list.
del_dev4clt_all(st, clt, devs) ==
    LET r == DEL(st, get_clt_dev_list_key(clt))
    IN  Outcome(r, UnwrapUnit(r.reply))

del_dev4clt(st, clt, devs) ==
    LET r == SREM(st, get_clt_dev_list_key(clt), ArgsOfSet(devs))
    IN  Outcome(r, UnwrapUnit(r.reply))

get_devclt_set(st, clt) ==
    LET r == SMEMBERS(st, get_clt_dev_list_key(clt))
    IN  Outcome(r, UnwrapSet(r.reply))

exists_devclt(st, clt) ==
    LET r == EXISTS(st, get_clt_dev_list_key(clt))
    IN  Outcome(r, UnwrapBool(r.reply))

\* Variant of remove_devclt_set that deletes the group key of the id.
remove_devclt_set_group_key(st, clt) ==
    LET r == DEL(st, get_group_key(clt))
    IN  Outcome(r, UnwrapBool(r.reply))

remove_devclt_set(st, clt) ==
    LET r == DEL(st, get_clt_dev_list_key(clt))
    IN  Outcome(r, UnwrapBool(r.reply))

\* device.rs: the device record
add_dev2clt_hash(st, clt, dev, hm) ==
    LET r == HSET(st, get_clt_dev_hash_key(clt, dev), hm)
    IN  Outcome(r, UnwrapUnit(r.reply))

\* Variant of get_device that treats a missing record as a failure.
get_device_not_found(st, clt, dev) ==
    LET r == HGETALL(st, get_clt_dev_hash_key(clt, dev))
    IN  Outcome(r, IF get_clt_dev_hash_key(clt, dev) \in DOMAIN st
                   THEN UnwrapMap(r.reply) ELSE Panic)

get_device(st, clt, dev) ==
    LET r == HGETALL(st, get_clt_dev_hash_key(clt, dev))
    IN  Outcome(r, UnwrapMap(r.reply))

exists_device(st, clt, dev) ==
    LET r == EXISTS(st, get_clt_dev_hash_key(clt, dev))
    IN  Outcome(r, UnwrapBool(r.reply))

\* Variant of remove_device that deletes the client's device list as well.
remove_device_and_list(st, clt, dev) ==
    LET r == DEL(Drop(st, get_clt_dev_list_key(clt)),
                 get_clt_dev_hash_key(clt, dev))
    IN  Outcome(r, UnwrapBool(r.reply))

\* Variant of remove_device that sends EXISTS where DEL is meant.
remove_device_exists(st, clt, dev) ==
    LET r == EXISTS(st, get_clt_dev_hash_key(clt, dev))
    IN  Outcome(r, UnwrapBool(r.reply))

remove_device(st, clt, dev) ==
    LET r == DEL(st, get_clt_dev_hash_key(clt, dev))
    IN  Outcome(r, UnwrapBool(r.reply))

----------------------------------------------------------------------------
(* One accessor call by the program: the command reaches the store, the    *)
(* reply is converted, and the call is logged.                             *)

CallRec(fn, clt, dev, hs, hm, key, pre, pre2, res) ==
    [fn |-> fn, clt |-> clt, dev |-> dev, hs |-> hs, hm |-> hm,
     key |-> key, pre |-> pre, pre2 |-> pre2, res |-> res]

NoCall == CallRec("none", 0, 0, {}, EmptyMap, "", Absent, Absent, NoResult)

Changed(st, st2) ==
    { k \in DOMAIN st \cup DOMAIN st2 : Lookup(st, k) # Lookup(st2, k) }

Perform(limit, fn, clt, dev, hs, hm, key, out) ==
    /\ ncalls < limit
    /\ ncalls' = ncalls + 1
    /\ store' = out.store
    /\ written' = written \cup Changed(store, out.store)
    /\ prev' = last
    /\ last' = CallRec(fn, clt, dev, hs, hm, key, Lookup(store, key),
                       Lookup(store, get_del_user_key(clt)), out.res)
    /\ UNCHANGED link
    /\ UNCHANGED connVars
    /\ UNCHANGED taskVars

Call_add_group(ids, limit) ==
    \E clt \in ids, hs \in SetPayloads :
        Perform(limit, "add_group", clt, 0, hs, EmptyMap, get_group_key(clt),
                add_group(store, clt, hs))

Call_del_group(ids, limit) ==
    \E clt \in ids, hs \in SetPayloads :
        Perform(limit, "del_group", clt, 0, hs, EmptyMap, get_group_key(clt),
                del_group(store, clt, hs))

Call_get_group(ids, limit) ==
    \E clt \in ids :
        Perform(limit, "get_group", clt, 0, {}, EmptyMap, get_group_key(clt),
                get_group(store, clt))

Call_exists_group(ids, limit) ==
    \E clt \in ids :
        Perform(limit, "exists_group", clt, 0, {}, EmptyMap, get_group_key(clt),
                exists_group(store, clt))

Call_remove_group(ids, limit) ==
    \E clt \in ids :
        Perform(limit, "remove_group", clt, 0, {}, EmptyMap, get_group_key(clt),
                remove_group(store, clt))

Call_add_user(ids, limit) ==
    \E clt \in ids, hm \in HashPayloads :
        Perform(limit, "add_user", clt, 0, {}, hm, get_user_key(clt),
                add_user(store, clt, hm))

Call_get_user(ids, limit) ==
    \E clt \in ids :
        Perform(limit, "get_user", clt, 0, {}, EmptyMap, get_user_key(clt),
                get_user(store, clt))

Call_exists_user(ids, limit) ==
    \E clt \in ids :
        Perform(limit, "exists_user", clt, 0, {}, EmptyMap, get_user_key(clt),
                exists_user(store, clt))

Call_remove_user(ids, limit) ==
    \E clt \in ids :
        Perform(limit, "remove_user", clt, 0, {}, EmptyMap, get_user_key(clt),
                remove_user(store, clt))

Call_add_user_contacts(ids, limit) ==
    \E clt \in ids, hs \in SetPayloads :
        Perform(limit, "add_user_contacts", clt, 0, hs, EmptyMap,
                get_user_conts_key(clt), add_user_contacts(store, clt, hs))

Call_del_user_contacts(ids, limit) ==
    \E clt \in ids, hs \in SetPayloads :
        Perform(limit, "del_user_contacts", clt, 0, hs, EmptyMap,
                get_user_conts_key(clt), del_user_contacts(store, clt, hs))

Call_get_user_contacts(ids, limit) ==
    \E clt \in ids :
        Perform(limit, "get_user_contacts", clt, 0, {}, EmptyMap,
                get_user_conts_key(clt), get_user_contacts(store, clt))

Call_add_group_contacts(ids, limit) ==
    \E clt \in ids, hs \in SetPayloads :
        Perform(limit, "add_group_contacts", clt, 0, hs, EmptyMap,
                get_group_conts_key(clt), add_group_contacts(store, clt, hs))

Call_del_group_contacts(ids, limit) ==
    \E clt \in ids, hs \in SetPayloads :
        Perform(limit, "del_group_contacts", clt, 0, hs, EmptyMap,
                get_group_conts_key(clt), del_group_contacts(store, clt, hs))

Call_get_group_contacts(ids, limit) ==
    \E clt \in ids :
        Perform(limit, "get_group_contacts", clt, 0, {}, EmptyMap,
                get_group_conts_key(clt), get_group_contacts(store, clt))

Call_add_dev2clt(ids, limit) ==
    \E clt \in ids, devs \in SetPayloads :
        Perform(limit, "add_dev2clt", clt, 0, devs, EmptyMap,
                get_clt_dev_list_key(clt), add_dev2clt(store, clt, devs))

Call_del_dev4clt(ids, limit) ==
    \E clt \in ids, devs \in SetPayloads :
        Perform(limit, "del_dev4clt", clt, 0, devs, EmptyMap,
                get_clt_dev_list_key(clt), del_dev4clt(store, clt, devs))

Call_get_devclt_set(ids, limit) ==
    \E clt \in ids :
        Perform(limit, "get_devclt_set", clt, 0, {}, EmptyMap,
                get_clt_dev_list_key(clt), get_devclt_set(store, clt))

Call_exists_devclt(ids, limit) ==
    \E clt \in ids :
        Perform(limit, "exists_devclt", clt, 0, {}, EmptyMap,
                get_clt_dev_list_key(clt), exists_devclt(store, clt))

Call_remove_devclt_set(ids, limit) ==
    \E clt \in ids :
        Perform(limit, "remove_devclt_set", clt, 0, {}, EmptyMap,
                get_clt_dev_list_key(clt), remove_devclt_set(store, clt))

Call_add_dev2clt_hash(ids, limit) ==
    \E clt \in ids, dev \in DevIDs, hm \in HashPayloads :
        Perform(limit, "add_dev2clt_hash", clt, dev, {}, hm,
                get_clt_dev_hash_key(clt, dev),
                add_dev2clt_hash(store, clt, dev, hm))

Call_get_device(ids, limit) ==
    \E clt \in ids, dev \in DevIDs :
        Perform(limit, "get_device", clt, dev, {}, EmptyMap,
                get_clt_dev_hash_key(clt, dev), get_device(store, clt, dev))

Call_exists_device(ids, limit) ==
    \E clt \in ids, dev \in DevIDs :
        Perform(limit, "exists_device", clt, dev, {}, EmptyMap,
                get_clt_dev_hash_key(clt, dev), exists_device(store, clt, dev))

Call_remove_device(ids, limit) ==
    \E clt \in ids, dev \in DevIDs :
        Perform(limit, "remove_device", clt, dev, {}, EmptyMap,
                get_clt_dev_hash_key(clt, dev), remove_device(store, clt, dev))

----------------------------------------------------------------------------
(* mod.rs: the connection provider *)

Tasks == {1, 2}

Urls == {"redis://127.0.0.1/", "redis://10.0.0.7/",
         "redis://down.example/", "http://127.0.0.1/"}

\* redis::Client::open(url): Err for a URL that is no redis URL.
ClientOpens(url) == url # "http://127.0.0.1/"

\* clt.get_multiplexed_tokio_connection(): Err when no server answers.
Connects(url) == url # "redis://down.example/"

None == [some |-> FALSE, client |-> "", connect |-> 0]

\* Arc::new(RedisDBManager { client: clt.clone(), connect: con.clone() })
RedisDBManager(client, connect) ==
    [some |-> TRUE, client |-> client, connect |-> connect]

\* Variant of get_or_init that stores the new manager over a stored one.
get_or_init_replacing(cell, mgr) == mgr

\* OnceCell::get_or_init: the closure runs only when the cell is empty.
get_or_init(cell, mgr) == IF cell.some THEN cell ELSE mgr

ModRet(fn, tag, mgr, client, connect, seen) ==
    [fn |-> fn, tag |-> tag, mgr |-> mgr, client |-> client,
     connect |-> connect, seen |-> seen]

NoRet == ModRet("none", "none", None, "", 0, None)

\* SINGLETON_REDIS_DB_MANAGER.get().cloned()
get_redis_dbmanager(cell) ==
    IF cell.some THEN ModRet("get_redis_dbmanager", "some", cell, "", 0, cell)
    ELSE ModRet("get_redis_dbmanager", "none", None, "", 0, cell)

\* SINGLETON_REDIS_DB_MANAGER.get().map(|manager| manager.client.clone())
get_redis_client(cell) ==
    IF cell.some
    THEN ModRet("get_redis_client", "some", None, cell.client, 0, cell)
    ELSE ModRet("get_redis_client", "none", None, "", 0, cell)

\* Variant of get_redis_connect that hands out no connection.
get_redis_connect_none(cell) ==
    ModRet("get_redis_connect", "none", None, "", 0, cell)

\* SINGLETON_REDIS_DB_MANAGER.get().map(|manager| manager.connect.clone())
get_redis_connect(cell) ==
    IF cell.some
    THEN ModRet("get_redis_connect", "some", None, "", cell.connect, cell)
    ELSE ModRet("get_redis_connect", "none", None, "", 0, cell)

InitErr(seen) == ModRet("init_redis_database", "err", None, "", 0, seen)
InitOk(mgr, seen) == ModRet("init_redis_database", "ok", mgr, "", 0, seen)

\* Line 71: `let clt = redis::Client::open(redis_url)?;`
init_open(t, url) ==
    /\ pc[t] = "idle"
    /\ ninits < MaxInits
    /\ ninits' = ninits + 1
    /\ seenAtCall' = [seenAtCall EXCEPT ![t] = singleton]
    /\ IF ClientOpens(url)
       THEN /\ clt_' = [clt_ EXCEPT ![t] = url]
            /\ nclients' = nclients + 1
            /\ pc' = [pc EXCEPT ![t] = "connect"]
            /\ UNCHANGED <<ret, failedEmpty>>
       ELSE /\ ret' = [ret EXCEPT ![t] = InitErr(singleton)]
            /\ failedEmpty' = (failedEmpty \/ ~singleton.some)
            /\ UNCHANGED <<clt_, nclients, pc>>
    /\ UNCHANGED <<singleton, con_, nattempts, nconns>>
    /\ UNCHANGED storeVars
    /\ UNCHANGED taskVars

\* Variant of init_connect that tries again when the connection fails.
init_connect_retry(t) ==
    /\ pc[t] = "connect"
    /\ nattempts' = nattempts + 1
    /\ IF Connects(clt_[t])
       THEN /\ nconns' = nconns + 1
            /\ con_' = [con_ EXCEPT ![t] = nconns + 1]
            /\ pc' = [pc EXCEPT ![t] = "store"]
            /\ UNCHANGED <<ret, failedEmpty>>
       ELSE /\ nattempts < MaxInits
            /\ UNCHANGED <<ret, failedEmpty, pc, nconns, con_>>
    /\ UNCHANGED <<singleton, clt_, seenAtCall, nclients, ninits>>
    /\ UNCHANGED storeVars
    /\ UNCHANGED taskVars

\* Line 72: `let con = clt.get_multiplexed_tokio_connection().await?;`
init_connect(t) ==
    /\ pc[t] = "connect"
    /\ nattempts' = nattempts + 1
    /\ IF Connects(clt_[t])
       THEN /\ nconns' = nconns + 1
            /\ con_' = [con_ EXCEPT ![t] = nconns + 1]
            /\ pc' = [pc EXCEPT ![t] = "store"]
            /\ UNCHANGED <<ret, failedEmpty>>
       ELSE /\ ret' = [ret EXCEPT ![t] = InitErr(seenAtCall[t])]
            /\ failedEmpty' = (failedEmpty \/ ~singleton.some)
            /\ pc' = [pc EXCEPT ![t] = "idle"]
            /\ UNCHANGED <<nconns, con_>>
    /\ UNCHANGED <<singleton, clt_, seenAtCall, nclients, ninits>>
    /\ UNCHANGED storeVars
    /\ UNCHANGED taskVars

\* Lines 75-82: get_or_init, then Ok(SINGLETON.get().cloned().unwrap())
init_store(t) ==
    /\ pc[t] = "store"
    /\ singleton' = get_or_init(singleton, RedisDBManager(clt_[t], con_[t]))
    /\ ret' = [ret EXCEPT ![t] = InitOk(singleton', seenAtCall[t])]
    /\ pc' = [pc EXCEPT ![t] = "idle"]
    /\ UNCHANGED <<clt_, con_, seenAtCall, nclients, nattempts, nconns,
                   ninits, failedEmpty>>
    /\ UNCHANGED storeVars
    /\ UNCHANGED taskVars

Getter(t, r) ==
    /\ pc[t] = "idle"
    /\ ret' = [ret EXCEPT ![t] = r]
    /\ UNCHANGED <<singleton, pc, clt_, con_, seenAtCall, nclients,
                   nattempts, nconns, ninits, failedEmpty>>
    /\ UNCHANGED storeVars
    /\ UNCHANGED taskVars

Call_get_redis_dbmanager(t) == Getter(t, get_redis_dbmanager(singleton))

Call_get_redis_client(t) == Getter(t, get_redis_client(singleton))

Call_get_redis_connect(t) == Getter(t, get_redis_connect(singleton))

----------------------------------------------------------------------------
(* The connection to the store is lost, and comes back *)

Fault ==
    /\ link = "up"
    /\ link' = "down"
    /\ UNCHANGED <<store, written, last, prev, ncalls>>
    /\ UNCHANGED connVars
    /\ UNCHANGED taskVars

Repair ==
    /\ link = "down"
    /\ link' = "up"
    /\ UNCHANGED <<store, written, last, prev, ncalls>>
    /\ UNCHANGED connVars
    /\ UNCHANGED taskVars

----------------------------------------------------------------------------
(* Accessor calls made by concurrent tasks.  A call sends its one command   *)
(* at `query_async(con).await` (or con.exists / con.del / con.rename) and   *)
(* is suspended until the reply is back; the store executes the commands    *)
(* one at a time, in the order they reach it.                               *)

Req(fn, clt, dev, hs, hm) ==
    [fn |-> fn, clt |-> clt, dev |-> dev, hs |-> hs, hm |-> hm]

NoReq == Req("none", 0, 0, {}, EmptyMap)

\* The accessor named by the request, applied to the keyspace.
Exec(st, req) ==
    CASE req.fn = "add_group" -> add_group(st, req.clt, req.hs)
      [] req.fn = "del_group" -> del_group(st, req.clt, req.hs)
      [] req.fn = "get_group" -> get_group(st, req.clt)
      [] req.fn = "exists_group" -> exists_group(st, req.clt)
      [] req.fn = "remove_group" -> remove_group(st, req.clt)
      [] req.fn = "add_user" -> add_user(st, req.clt, req.hm)
      [] req.fn = "get_user" -> get_user(st, req.clt)
      [] req.fn = "exists_user" -> exists_user(st, req.clt)
      [] req.fn = "remove_user" -> remove_user(st, req.clt)
      [] OTHER -> [store |-> st, res |-> NoResult]

\* The call begins: the key is built and the command is sent.
Send(t, fn, clt, dev, hs, hm) ==
    /\ tpc[t] = "idle"
    /\ nsends < MaxTaskCalls
    /\ nsends' = nsends + 1
    /\ tpc' = [tpc EXCEPT ![t] = "sent"]
    /\ treq' = [treq EXCEPT ![t] = Req(fn, clt, dev, hs, hm)]
    /\ tstart' = [tstart EXCEPT ![t] = store]
    /\ UNCHANGED <<trep, tret, arrivals>>
    /\ UNCHANGED storeVars
    /\ UNCHANGED connVars

\* The command of task t reaches the store and is executed, whole.
Arrive(t) ==
    /\ tpc[t] = "sent"
    /\ store' = Exec(store, treq[t]).store
    /\ written' = written \cup Changed(store, store')
    /\ trep' = [trep EXCEPT ![t] = Exec(store, treq[t]).res]
    /\ tpc' = [tpc EXCEPT ![t] = "replied"]
    /\ arrivals' = Append(arrivals,
         [t |-> t, req |-> treq[t], pre |-> store, res |-> trep'[t],
          others |-> { [req |-> treq[u], start |-> tstart[u]] :
                       u \in { v \in Tasks : v # t /\ tpc[v] # "idle" } }])
    /\ UNCHANGED <<treq, tstart, tret, nsends>>
    /\ UNCHANGED <<last, prev, ncalls, link>>
    /\ UNCHANGED connVars

\* The reply is back: the call returns (or panics in unwrap).
Receive(t) ==
    /\ tpc[t] = "replied"
    /\ tret' = [tret EXCEPT ![t] = trep[t]]
    /\ tpc' = [tpc EXCEPT ![t] = "idle"]
    /\ UNCHANGED <<treq, tstart, trep, arrivals, nsends>>
    /\ UNCHANGED storeVars
    /\ UNCHANGED connVars

----------------------------------------------------------------------------
(* The specifications *)

Init ==
    /\ store = [k \in {} |-> Absent]
    /\ written = {}
    /\ last = NoCall
    /\ prev = NoCall
    /\ ncalls = 0
    /\ link = "up"
    /\ singleton = None
    /\ pc = [t \in Tasks |-> "idle"]
    /\ clt_ = [t \in Tasks |-> ""]
    /\ con_ = [t \in Tasks |-> 0]
    /\ seenAtCall = [t \in Tasks |-> None]
    /\ ret = [t \in Tasks |-> NoRet]
    /\ nclients = 0
    /\ nattempts = 0
    /\ nconns = 0
    /\ ninits = 0
    /\ failedEmpty = FALSE
    /\ tpc = [t \in Tasks |-> "idle"]
    /\ treq = [t \in Tasks |-> NoReq]
    /\ tstart = [t \in Tasks |-> store]
    /\ trep = [t \in Tasks |-> NoResult]
    /\ tret = [t \in Tasks |-> NoResult]
    /\ arrivals = << >>
    /\ nsends = 0

\* Every accessor of groups.rs, users.rs and device.rs, on every client id.
Next ==
    \/ Call_add_group(ClientIDs, MaxCalls)
    \/ Call_del_group(ClientIDs, MaxCalls)
    \/ Call_get_group(ClientIDs, MaxCalls)
    \/ Call_exists_group(ClientIDs, MaxCalls)
    \/ Call_remove_group(ClientIDs, MaxCalls)
    \/ Call_add_user(ClientIDs, MaxCalls)
    \/ Call_get_user(ClientIDs, MaxCalls)
    \/ Call_exists_user(ClientIDs, MaxCalls)
    \/ Call_remove_user(ClientIDs, MaxCalls)
    \/ Call_add_user_contacts(ClientIDs, MaxCalls)
    \/ Call_del_user_contacts(ClientIDs, MaxCalls)
    \/ Call_get_user_contacts(ClientIDs, MaxCalls)
    \/ Call_add_group_contacts(ClientIDs, MaxCalls)
    \/ Call_del_group_contacts(ClientIDs, MaxCalls)
    \/ Call_get_group_contacts(ClientIDs, MaxCalls)
    \/ Call_add_dev2clt(ClientIDs, MaxCalls)
    \/ Call_del_dev4clt(ClientIDs, MaxCalls)
    \/ Call_get_devclt_set(ClientIDs, MaxCalls)
    \/ Call_exists_devclt(ClientIDs, MaxCalls)
    \/ Call_remove_devclt_set(ClientIDs, MaxCalls)
    \/ Call_add_dev2clt_hash(ClientIDs, MaxCalls)
    \/ Call_get_device(ClientIDs, MaxCalls)
    \/ Call_exists_device(ClientIDs, MaxCalls)
    \/ Call_remove_device(ClientIDs, MaxCalls)

Spec == Init /\ [][Next]_vars

\* The life of one user record: add_user, get_user, exists_user, remove_user.
OneClient == {12}

NextUserRecord ==
    \/ Call_add_user(OneClient, MaxUserCalls)
    \/ Call_get_user(OneClient, MaxUserCalls)
    \/ Call_exists_user(OneClient, MaxUserCalls)
    \/ Call_remove_user(OneClient, MaxUserCalls)

SpecUserRecord == Init /\ [][NextUserRecord]_vars

\* The entities with a whole-key delete: created, deleted, deleted again.
NextWholeKey ==
    \/ Call_add_group(OneClient, MaxDeleteCalls)
    \/ Call_remove_group(OneClient, MaxDeleteCalls)
    \/ Call_add_dev2clt(OneClient, MaxDeleteCalls)
    \/ Call_remove_devclt_set(OneClient, MaxDeleteCalls)
    \/ Call_add_dev2clt_hash(OneClient, MaxDeleteCalls)
    \/ Call_remove_device(OneClient, MaxDeleteCalls)

SpecWholeKey == Init /\ [][NextWholeKey]_vars

\* The set-typed entities of one client: members added, removed and read,
\* and the keys tested and deleted where the kind has the function.
NextSetMembers ==
    \/ Call_add_group(OneClient, MaxSetCalls)
    \/ Call_del_group(OneClient, MaxSetCalls)
    \/ Call_get_group(OneClient, MaxSetCalls)
    \/ Call_exists_group(OneClient, MaxSetCalls)
    \/ Call_remove_group(OneClient, MaxSetCalls)
    \/ Call_add_user_contacts(OneClient, MaxSetCalls)
    \/ Call_del_user_contacts(OneClient, MaxSetCalls)
    \/ Call_get_user_contacts(OneClient, MaxSetCalls)
    \/ Call_add_group_contacts(OneClient, MaxSetCalls)
    \/ Call_del_group_contacts(OneClient, MaxSetCalls)
    \/ Call_get_group_contacts(OneClient, MaxSetCalls)
    \/ Call_add_dev2clt(OneClient, MaxSetCalls)
    \/ Call_del_dev4clt(OneClient, MaxSetCalls)
    \/ Call_get_devclt_set(OneClient, MaxSetCalls)
    \/ Call_exists_devclt(OneClient, MaxSetCalls)
    \/ Call_remove_devclt_set(OneClient, MaxSetCalls)

SpecSetMembers == Init /\ [][NextSetMembers]_vars

\* One user record, used by two tasks at the same time.
NextUserTasks ==
    \/ \E t \in Tasks, clt \in OneClient, hm \in UserRecords :
          Send(t, "add_user", clt, 0, {}, hm)
    \/ \E t \in Tasks, clt \in OneClient :
          Send(t, "get_user", clt, 0, {}, EmptyMap)
    \/ \E t \in Tasks, clt \in OneClient :
          Send(t, "exists_user", clt, 0, {}, EmptyMap)
    \/ \E t \in Tasks, clt \in OneClient :
          Send(t, "remove_user", clt, 0, {}, EmptyMap)
    \/ \E t \in Tasks : Arrive(t)
    \/ \E t \in Tasks : Receive(t)

SpecUserTasks == Init /\ [][NextUserTasks]_vars

\* One group, used by two tasks at the same time.
NextGroupTasks ==
    \/ \E t \in Tasks, clt \in OneClient, hs \in MemberSets :
          Send(t, "add_group", clt, 0, hs, EmptyMap)
    \/ \E t \in Tasks, clt \in OneClient, hs \in MemberSets :
          Send(t, "del_group", clt, 0, hs, EmptyMap)
    \/ \E t \in Tasks, clt \in OneClient :
          Send(t, "get_group", clt, 0, {}, EmptyMap)
    \/ \E t \in Tasks : Arrive(t)
    \/ \E t \in Tasks : Receive(t)

SpecGroupTasks == Init /\ [][NextGroupTasks]_vars

\* The hash-typed entities of one client, written and read.
NextHashRecords ==
    \/ Call_add_user(OneClient, MaxHashCalls)
    \/ Call_get_user(OneClient, MaxHashCalls)
    \/ Call_add_dev2clt_hash(OneClient, MaxHashCalls)
    \/ Call_get_device(OneClient, MaxHashCalls)

SpecHashRecords == Init /\ [][NextHashRecords]_vars

\* Every accessor, on one client, over a connection that can go down.
NextFaults ==
    \/ Call_add_group(OneClient, MaxFaultCalls)
    \/ Call_del_group(OneClient, MaxFaultCalls)
    \/ Call_get_group(OneClient, MaxFaultCalls)
    \/ Call_exists_group(OneClient, MaxFaultCalls)
    \/ Call_remove_group(OneClient, MaxFaultCalls)
    \/ Call_add_user(OneClient, MaxFaultCalls)
    \/ Call_get_user(OneClient, MaxFaultCalls)
    \/ Call_exists_user(OneClient, MaxFaultCalls)
    \/ Call_remove_user(OneClient, MaxFaultCalls)
    \/ Call_add_user_contacts(OneClient, MaxFaultCalls)
    \/ Call_del_user_contacts(OneClient, MaxFaultCalls)
    \/ Call_get_user_contacts(OneClient, MaxFaultCalls)
    \/ Call_add_group_contacts(OneClient, MaxFaultCalls)
    \/ Call_del_group_contacts(OneClient, MaxFaultCalls)
    \/ Call_get_group_contacts(OneClient, MaxFaultCalls)
    \/ Call_add_dev2clt(OneClient, MaxFaultCalls)
    \/ Call_del_dev4clt(OneClient, MaxFaultCalls)
    \/ Call_get_devclt_set(OneClient, MaxFaultCalls)
    \/ Call_exists_devclt(OneClient, MaxFaultCalls)
    \/ Call_remove_devclt_set(OneClient, MaxFaultCalls)
    \/ Call_add_dev2clt_hash(OneClient, MaxFaultCalls)
    \/ Call_get_device(OneClient, MaxFaultCalls)
    \/ Call_exists_device(OneClient, MaxFaultCalls)
    \/ Call_remove_device(OneClient, MaxFaultCalls)
    \/ Fault
    \/ Repair

SpecFaults == Init /\ [][NextFaults]_vars

\* The connection provider, called from two tasks.
NextConn ==
    \/ \E t \in Tasks, url \in Urls : init_open(t, url)
    \/ \E t \in Tasks : init_connect(t)
    \/ \E t \in Tasks : init_store(t)
    \/ \E t \in Tasks : Call_get_redis_dbmanager(t)
    \/ \E t \in Tasks : Call_get_redis_client(t)
    \/ \E t \in Tasks : Call_get_redis_connect(t)

SpecConn == Init /\ [][NextConn]_vars

----------------------------------------------------------------------------
(* Reading the log of calls *)

SetAddFns  == {"add_group", "add_user_contacts", "add_group_contacts",
               "add_dev2clt"}
HashAddFns == {"add_user", "add_dev2clt_hash"}
AddFns     == SetAddFns \cup HashAddFns
SetDelFns  == {"del_group", "del_user_contacts", "del_group_contacts",
               "del_dev4clt"}
ExistsFns  == {"exists_group", "exists_user", "exists_devclt",
               "exists_device"}
RemoveFns  == {"remove_group", "remove_devclt_set", "remove_device"}

\* The entity kind a function works on.
KindOf(fn) ==
    CASE fn \in {"add_group", "del_group", "get_group", "exists_group",
                 "remove_group"} -> "group"
      [] fn \in {"add_user", "get_user", "exists_user", "remove_user"}
             -> "user"
      [] fn \in {"add_user_contacts", "del_user_contacts",
                 "get_user_contacts"} -> "user_contacts"
      [] fn \in {"add_group_contacts", "del_group_contacts",
                 "get_group_contacts"} -> "group_contacts"
      [] fn \in {"add_dev2clt", "del_dev4clt", "get_devclt_set",
                 "exists_devclt", "remove_devclt_set"} -> "devclt"
      [] fn \in {"add_dev2clt_hash", "get_device", "exists_device",
                 "remove_device"} -> "device"
      [] OTHER -> "none"

ReadFn(kind) ==
    CASE kind = "group" -> "get_group"
      [] kind = "user" -> "get_user"
      [] kind = "user_contacts" -> "get_user_contacts"
      [] kind = "group_contacts" -> "get_group_contacts"
      [] kind = "devclt" -> "get_devclt_set"
      [] kind = "device" -> "get_device"
      [] OTHER -> "none"

ExistsFn(kind) ==
    CASE kind = "group" -> "exists_group"
      [] kind = "user" -> "exists_user"
      [] kind = "devclt" -> "exists_devclt"
      [] kind = "device" -> "exists_device"
      [] OTHER -> "none"

\* What read(id) of the kind returns when it is called in state st.
ReadNow(st, kind, clt, dev) ==
    CASE kind = "group" -> get_group(st, clt).res
      [] kind = "user" -> get_user(st, clt).res
      [] kind = "user_contacts" -> get_user_contacts(st, clt).res
      [] kind = "group_contacts" -> get_group_contacts(st, clt).res
      [] kind = "devclt" -> get_devclt_set(st, clt).res
      [] kind = "device" -> get_device(st, clt, dev).res
      [] OTHER -> NoResult

\* What exists(id) of the kind returns when it is called in state st.
ExistsNow(st, kind, clt, dev) ==
    CASE kind = "group" -> exists_group(st, clt).res
      [] kind = "user" -> exists_user(st, clt).res
      [] kind = "devclt" -> exists_devclt(st, clt).res
      [] kind = "device" -> exists_device(st, clt, dev).res
      [] OTHER -> NoResult

\* What the whole-key delete of the kind returns when called in state st.
RemoveNow(st, kind, clt, dev) ==
    CASE kind = "group" -> remove_group(st, clt).res
      [] kind = "devclt" -> remove_devclt_set(st, clt).res
      [] kind = "device" -> remove_device(st, clt, dev).res
      [] OTHER -> NoResult

\* Two logged calls address the same entity.
SameEntity(c, d) ==
    /\ KindOf(c.fn) = KindOf(d.fn)
    /\ c.clt = d.clt
    /\ c.dev = d.dev

\* The payload of an add, as the read would return it.
PayloadOf(c) ==
    IF c.fn \in HashAddFns THEN MapResult(c.hm) ELSE SetResult(c.hs)

\* What the key held before call c, with the payload of c merged in:
\* union for a set, the payload's fields overriding for a hash.
MergedOf(c) ==
    IF c.fn \in HashAddFns
    THEN MapResult([f \in DOMAIN c.pre.fields \cup DOMAIN c.hm |->
                       IF f \in DOMAIN c.hm THEN c.hm[f] ELSE c.pre.fields[f]])
    ELSE SetResult({ m \in Members : ToString(m) \in c.pre.members } \cup c.hs)

Completed(c) == c.res.tag \notin {"none", "panic", "err"}

----------------------------------------------------------------------------
(* The claims about the accessors *)

\* C1, as stated: for every entity kind, the read issued right after a
\* completed add(id, payload) returns exactly payload, whatever the key
\* held before the add.
C1_ReadAfterAddIsPayload ==
    (last.fn \in AddFns /\ Completed(last)) =>
        ReadNow(store, KindOf(last.fn), last.clt, last.dev) = PayloadOf(last)

\* C1, amended: for every entity kind, the read issued right after a
\* completed add(id, payload) returns what the key held before the add with
\* payload merged in (set union; payload's fields overriding the hash's), and
\* so exactly payload when the key did not exist before the add.
C1_ReadAfterAddIsMerge ==
    /\ (last.fn \in AddFns /\ Completed(last)) =>
          /\ ReadNow(store, KindOf(last.fn), last.clt, last.dev)
                = MergedOf(last)
          /\ last.pre = Absent =>
                ReadNow(store, KindOf(last.fn), last.clt, last.dev)
                    = PayloadOf(last)
    /\ (/\ prev.fn \in AddFns /\ Completed(prev)
        /\ last.fn = ReadFn(KindOf(prev.fn)) /\ SameEntity(prev, last)) =>
          last.res = MergedOf(prev)

\* C1 witness: an add completed on a key that held something outside the
\* payload, and the read after it returns more than the payload.
C1_Witness ==
    /\ last.fn \in AddFns /\ Completed(last)
    /\ last.pre # Absent
    /\ MergedOf(last) # PayloadOf(last)
    /\ ReadNow(store, KindOf(last.fn), last.clt, last.dev) = MergedOf(last)

\* C2: for every set-typed entity, after add(id, payload) followed by
\* remove(id, payload), read(id) returns a set holding no element of payload.
C2_RemoveAfterAdd ==
    (/\ prev.fn \in SetAddFns /\ Completed(prev)
     /\ last.fn \in SetDelFns /\ Completed(last)
     /\ SameEntity(prev, last) /\ last.hs = prev.hs) =>
        /\ ReadNow(store, KindOf(last.fn), last.clt, last.dev).tag = "set"
        /\ ReadNow(store, KindOf(last.fn), last.clt, last.dev).hs
              \cap last.hs = {}

\* C2 witness: add(id, P) then remove(id, P) both completed, P not empty.
C2_Witness ==
    /\ prev.fn = "add_dev2clt" /\ Completed(prev)
    /\ last.fn = "del_dev4clt" /\ Completed(last)
    /\ SameEntity(prev, last) /\ last.hs = prev.hs
    /\ Cardinality(last.hs) = 2

\* C3: exists(id) returns Ok(false) while no write has ever been made to the
\* key, and Ok(true) right after a completed add on the key.
C3_Exists ==
    /\ \A clt \in ClientIDs, dev \in DevIDs :
          /\ get_group_key(clt) \notin written =>
                exists_group(store, clt).res = Ok(FALSE)
          /\ get_user_key(clt) \notin written =>
                exists_user(store, clt).res = Ok(FALSE)
          /\ get_clt_dev_list_key(clt) \notin written =>
                exists_devclt(store, clt).res = Ok(FALSE)
          /\ get_clt_dev_hash_key(clt, dev) \notin written =>
                exists_device(store, clt, dev).res = Ok(FALSE)
    /\ (last.fn \in ExistsFns /\ last.key \notin written) =>
          last.res = Ok(FALSE)
    /\ (/\ last.fn \in AddFns /\ Completed(last)
        /\ ExistsFn(KindOf(last.fn)) # "none") =>
          ExistsNow(store, KindOf(last.fn), last.clt, last.dev) = Ok(TRUE)
    /\ (/\ prev.fn \in AddFns /\ Completed(prev)
        /\ last.fn = ExistsFn(KindOf(prev.fn)) /\ SameEntity(prev, last)) =>
          last.res = Ok(TRUE)

\* C3 witness: exists_user answered Ok(true) right after add_user, while
\* another user's key has never been written.
C3_Witness ==
    /\ prev.fn = "add_user" /\ Completed(prev)
    /\ last.fn = "exists_user" /\ SameEntity(prev, last)
    /\ last.res = Ok(TRUE)
    /\ \E clt \in ClientIDs : get_user_key(clt) \notin written

\* C4: for a key that exists, the whole-key delete returns Ok(true) on the
\* first call and Ok(false) on a second consecutive call on the same id; it
\* returns Ok(true) only when a key was actually removed.
C4_DeleteTwice ==
    /\ (last.fn \in RemoveFns /\ last.pre # Absent) =>
          /\ last.res = Ok(TRUE)
          /\ RemoveNow(store, KindOf(last.fn), last.clt, last.dev) = Ok(FALSE)
    /\ (last.fn \in RemoveFns /\ last.res = Ok(TRUE)) =>
          /\ last.pre # Absent
          /\ last.key \notin DOMAIN store
    /\ (prev.fn \in RemoveFns /\ last.fn = prev.fn /\ SameEntity(prev, last)) =>
          /\ last.res = Ok(FALSE)
          /\ prev.pre # Absent => prev.res = Ok(TRUE)

\* C4 witness: a device record that existed was deleted twice in a row.
C4_Witness ==
    /\ prev.fn = "remove_device" /\ prev.pre # Absent /\ prev.res = Ok(TRUE)
    /\ last.fn = "remove_device" /\ SameEntity(prev, last)
    /\ last.res = Ok(FALSE)

\* C5: after a successful remove_user(id) on an existing user, exists_user(id)
\* is false, get_user(id) is empty, and del_users:<id> holds exactly the hash
\* that users:<id> held just before the call.
C5_RemoveUser ==
    /\ (last.fn = "remove_user" /\ last.res.tag = "ok") =>
          /\ last.res = Ok(TRUE)
          /\ last.pre.type = "hash"
          /\ exists_user(store, last.clt).res = Ok(FALSE)
          /\ get_user(store, last.clt).res = MapResult(EmptyMap)
          /\ HGETALL(store, get_del_user_key(last.clt)).reply
                = MapReply(last.pre.fields)
    /\ (last.fn = "remove_user" /\ last.pre # Absent) => last.res = Ok(TRUE)
    /\ (/\ prev.fn = "remove_user" /\ prev.res.tag = "ok"
        /\ SameEntity(prev, last)) =>
          /\ last.fn = "exists_user" => last.res = Ok(FALSE)
          /\ last.fn = "get_user" => last.res = MapResult(EmptyMap)

\* C5 witness: a user record of two fields was soft-deleted.
C5_Witness ==
    /\ last.fn = "remove_user" /\ last.res = Ok(TRUE)
    /\ DOMAIN last.pre.fields = Fields
    /\ Lookup(store, get_del_user_key(last.clt)) = last.pre

\* C6: remove_user(id) called while users:<id> does not exist returns Err
\* (not Ok(false), not a panic) and leaves the whole store as it was,
\* del_users:<id> included.
C6_RemoveAbsentUser ==
    [][(/\ ncalls' # ncalls
        /\ last'.fn = "remove_user"
        /\ get_user_key(last'.clt) \notin DOMAIN store) =>
          /\ last'.res = Err
          /\ store' = store]_vars

\* C6 witness: remove_user failed on a user that an earlier remove_user had
\* soft-deleted, and del_users:<id> still holds the record.
C6_Witness ==
    /\ prev.fn = "remove_user" /\ prev.res = Ok(TRUE)
    /\ last.fn = "remove_user" /\ SameEntity(prev, last)
    /\ last.pre = Absent /\ last.res = Err
    /\ last.pre2 # Absent
    /\ Lookup(store, get_del_user_key(last.clt)) = last.pre2

ReadFns == {"get_group", "get_user", "get_user_contacts",
            "get_group_contacts", "get_devclt_set", "get_device"}

\* The empty collection of the type the read function returns.
EmptyOf(fn) ==
    IF fn \in {"get_user", "get_device"} THEN MapResult(EmptyMap)
    ELSE SetResult({})

\* C12: for every entity kind, read(id) on a key that does not exist returns
\* an empty collection (no error, no panic) and does not create the key: the
\* store is the same after the call.
C12_ReadAbsent ==
    [][(/\ ncalls' # ncalls
        /\ last'.fn \in ReadFns
        /\ last'.key \notin DOMAIN store) =>
          /\ last'.res = EmptyOf(last'.fn)
          /\ store' = store
          /\ last'.key \notin DOMAIN store']_vars

\* C12 witness: get_device on a record that does not exist, for a client
\* whose device list does exist, returned the empty map and created nothing.
C12_Witness ==
    /\ prev.fn = "add_dev2clt" /\ Completed(prev)
    /\ last.fn = "get_device" /\ last.clt = prev.clt
    /\ last.pre = Absent
    /\ last.res = MapResult(EmptyMap)
    /\ DOMAIN store = {prev.key}

\* C13: for every set-typed entity and a key holding set S, after a completed
\* add(id, P) followed by a completed remove(id, Q) (P and Q not empty),
\* read(id) returns exactly (S union P) minus Q.
C13_AddThenRemove ==
    (/\ prev.fn \in SetAddFns /\ Completed(prev)
     /\ last.fn \in SetDelFns /\ Completed(last)
     /\ SameEntity(prev, last)) =>
        ReadNow(store, KindOf(last.fn), last.clt, last.dev)
            = SetResult((SetOfReply(prev.pre.members) \cup prev.hs) \ last.hs)

\* C13 witness: on a group that already had a member, add {456, 789} then
\* remove {456} leaves the read returning {789}.
C13_Witness ==
    /\ prev.fn = "add_group" /\ Completed(prev)
    /\ prev.pre # Absent /\ prev.hs = {456, 789}
    /\ last.fn = "del_group" /\ Completed(last)
    /\ SameEntity(prev, last) /\ last.hs = {456}
    /\ get_group(store, last.clt).res = SetResult({789})

\* The entity kinds that have a whole-key delete.
RemoveKinds == {"group", "devclt", "device"}

\* exists(id) answers false and read(id) is empty for the entity, in state st.
GoneIn(st, kind, clt, dev) ==
    /\ ExistsNow(st, kind, clt, dev) = Ok(FALSE)
    /\ ReadNow(st, kind, clt, dev) = EmptyOf(ReadFn(kind))

\* C14: for every entity kind with a whole-key delete, once delete(id) has
\* returned, exists(id) returns false and read(id) returns an empty
\* collection, and both stay so through every call that is not an add on
\* that key.
C14_GoneUntilNextAdd ==
    /\ [](last.fn \in RemoveFns =>
            GoneIn(store, KindOf(last.fn), last.clt, last.dev))
    /\ [][\A kind \in RemoveKinds, clt \in ClientIDs, dev \in DevIDs :
            (/\ GoneIn(store, kind, clt, dev)
             /\ ~(/\ last'.fn \in AddFns
                  /\ KindOf(last'.fn) = kind
                  /\ last'.clt = clt
                  /\ kind = "device" => last'.dev = dev)) =>
                GoneIn(store', kind, clt, dev)]_vars

\* C14 witness: a device list that existed was deleted, then a device record
\* of the same client was written, and the list is still gone.
C14_Witness ==
    /\ prev.fn = "remove_devclt_set" /\ prev.pre # Absent
    /\ prev.res = Ok(TRUE)
    /\ last.fn = "add_dev2clt_hash" /\ Completed(last)
    /\ last.clt = prev.clt
    /\ GoneIn(store, "devclt", prev.clt, 0)

\* The keys the accessors build for the identifiers in use, by the structure
\* their commands work on.
SetKeys ==
    UNION { {get_group_key(clt), get_user_conts_key(clt),
             get_group_conts_key(clt), get_clt_dev_list_key(clt)} :
            clt \in ClientIDs }

HashKeys ==
    UNION { {get_user_key(clt), get_del_user_key(clt)} \cup
            { get_clt_dev_hash_key(clt, dev) : dev \in DevIDs } :
            clt \in ClientIDs }

DeviceListKeys == { get_clt_dev_list_key(clt) : clt \in ClientIDs }

DeviceRecordKeys ==
    { get_clt_dev_hash_key(clt, dev) : clt \in ClientIDs, dev \in DevIDs }

\* The functions that send SADD, SREM or SMEMBERS, and those that send HSET
\* or HGETALL.
SetCmdFns  == SetAddFns \cup SetDelFns \cup
              {"get_group", "get_user_contacts", "get_group_contacts",
               "get_devclt_set"}
HashCmdFns == HashAddFns \cup {"get_user", "get_device"}

\* C15: every key of the store has the one structure type of its prefix; no
\* accessor sends a set command to a key holding a hash or a hash command to
\* a key holding a set (so none is answered WRONGTYPE); no device-list key
\* equals a device-record key, and keys built for different entity kinds or
\* different identifiers are different keys.
C15_OneTypePerKey ==
    /\ \A k \in DOMAIN store :
          /\ k \in SetKeys \cup HashKeys
          /\ k \in SetKeys => store[k].type = "set"
          /\ k \in HashKeys => store[k].type = "hash"
    /\ last.fn \in SetCmdFns => last.pre.type \in {"none", "set"}
    /\ last.fn \in HashCmdFns => last.pre.type \in {"none", "hash"}
    /\ last.res = Panic =>
          /\ last.fn \in AddFns \cup SetDelFns
          /\ last.hs = {} /\ last.hm = EmptyMap
    /\ SetKeys \cap HashKeys = {}
    /\ DeviceListKeys \cap DeviceRecordKeys = {}
    /\ Cardinality(SetKeys \cup HashKeys)
          = Cardinality(ClientIDs) * (6 + Cardinality(DevIDs))

\* C15 witness: the device list of client 12 and the device record 2 of
\* client 1 were both written, under two keys, each with its own type.
C15_Witness ==
    /\ prev.fn = "add_dev2clt" /\ prev.clt = 12 /\ Completed(prev)
    /\ last.fn = "add_dev2clt_hash" /\ last.clt = 1 /\ last.dev = 2
    /\ Completed(last)
    /\ Lookup(store, get_clt_dev_list_key(12)).type = "set"
    /\ Lookup(store, get_clt_dev_hash_key(1, 2)).type = "hash"
    /\ Cardinality(DOMAIN store) = 2

\* The call just made was a whole-key delete of key k, or remove_user on it.
DeletedBy(c, k) ==
    /\ c.fn \in RemoveFns \cup {"remove_user"}
    /\ c.key = k

\* The call just made was a remove-members call on key k that took out every
\* member the set held.
EmptiedBy(c, k, held) ==
    /\ c.fn \in SetDelFns
    /\ c.key = k
    /\ held \subseteq ArgsOfSet(c.hs)

\* C16, as stated: a key that exists keeps existing through every later add
\* and remove-members call; it stops existing only through a whole-key
\* delete of that key or, for users:<id>, through remove_user(id).
C16_OnlyDeleteEndsKey ==
    [][\A k \in DOMAIN store :
          k \notin DOMAIN store' => DeletedBy(last', k)]_vars

\* C16, amended: a key that exists keeps existing through every later add
\* call and through every remove-members call that leaves it a member; it
\* stops existing only through a whole-key delete of that key, through
\* remove_user(id) for users:<id>, or through a remove-members call that
\* takes out the last members of the set.
C16_KeyEndsByDeleteOrLastMember ==
    [][\A k \in DOMAIN store :
          /\ k \notin DOMAIN store' =>
                (DeletedBy(last', k) \/ EmptiedBy(last', k, store[k].members))
          /\ (/\ last'.key = k /\ ncalls' # ncalls
              /\ last'.fn \in AddFns \cup SetDelFns
              /\ ~EmptiedBy(last', k, store[k].members)) =>
                EXISTS(store', k).reply = IntReply(1)]_vars

\* C16 witness: a group of two members lost one of them through del_group
\* and still exists.
C16_Witness ==
    /\ prev.fn = "add_group" /\ Completed(prev) /\ prev.hs = {456, 789}
    /\ last.fn = "del_group" /\ Completed(last) /\ last.hs = {789}
    /\ SameEntity(prev, last)
    /\ exists_group(store, last.clt).res = Ok(TRUE)
    /\ get_group(store, last.clt).res = SetResult({456})

\* C20: when del_users:<id> already exists (the user was soft-deleted,
\* created again and is soft-deleted again), remove_user(id) succeeds and
\* del_users:<id> afterwards holds exactly what users:<id> held just before
\* the call: the earlier deleted record is replaced, not merged.
C20_RemoveUserOverwrites ==
    (/\ last.fn = "remove_user"
     /\ last.pre # Absent
     /\ last.pre2 # Absent) =>
        /\ last.res = Ok(TRUE)
        /\ Lookup(store, get_del_user_key(last.clt)) = last.pre
        /\ HGETALL(store, get_del_user_key(last.clt)).reply
              = MapReply(last.pre.fields)
        /\ get_user_key(last.clt) \notin DOMAIN store

\* C20 witness: the record deleted earlier had a field the new record does
\* not have, the second remove_user succeeded, and del_users:<id> holds the
\* new record without that field.
C20_Witness ==
    /\ last.fn = "remove_user" /\ last.res = Ok(TRUE)
    /\ prev.fn = "add_user" /\ Completed(prev) /\ prev.pre = Absent
    /\ last.pre2 # Absent
    /\ DOMAIN last.pre2.fields = Fields
    /\ DOMAIN last.pre.fields = {"name"}
    /\ last.pre.fields["name"] # last.pre2.fields["name"]
    /\ Lookup(store, get_del_user_key(last.clt)).fields = last.pre.fields

\* The keyspace after the add of logged call c is made once more, in st.
AddAgain(st, c) ==
    IF c.fn = "add_user" THEN add_user(st, c.clt, c.hm).store
    ELSE add_dev2clt_hash(st, c.clt, c.dev, c.hm).store

\* C21: for the hash-typed entities, after a completed add with payload P on
\* a key holding hash H, the read returns H overridden by P: its fields are
\* those of H and P, every field of P has P's value, every field of H that
\* is not in P keeps its value; making the same add a second time leaves
\* the result as it was after the first.
C21_HashAddOverrides ==
    /\ (last.fn \in HashAddFns /\ Completed(last)) =>
          /\ ReadNow(store, KindOf(last.fn), last.clt, last.dev).tag = "map"
          /\ DOMAIN ReadNow(store, KindOf(last.fn), last.clt, last.dev).hm
                = DOMAIN last.pre.fields \cup DOMAIN last.hm
          /\ \A f \in DOMAIN last.hm :
                ReadNow(store, KindOf(last.fn), last.clt, last.dev).hm[f]
                    = last.hm[f]
          /\ \A f \in DOMAIN last.pre.fields \ DOMAIN last.hm :
                ReadNow(store, KindOf(last.fn), last.clt, last.dev).hm[f]
                    = last.pre.fields[f]
          /\ AddAgain(store, last) = store
    /\ (/\ prev.fn \in HashAddFns /\ Completed(prev)
        /\ last.fn = prev.fn /\ SameEntity(prev, last)
        /\ last.hm = prev.hm) =>
          Lookup(store, last.key) = last.pre
    /\ (/\ prev.fn \in HashAddFns /\ Completed(prev)
        /\ last.fn = ReadFn(KindOf(prev.fn)) /\ SameEntity(prev, last)) =>
          last.res = MergedOf(prev)

\* C21 witness: a device record with the fields name and type got the same
\* one-field payload twice; name has the payload's new value, type kept its
\* value, and the second add changed nothing.
C21_Witness ==
    /\ prev.fn = "add_dev2clt_hash" /\ Completed(prev)
    /\ DOMAIN prev.pre.fields = Fields
    /\ DOMAIN prev.hm = {"name"}
    /\ prev.hm["name"] # prev.pre.fields["name"]
    /\ last.fn = "add_dev2clt_hash" /\ Completed(last)
    /\ SameEntity(prev, last) /\ last.hm = prev.hm
    /\ get_device(store, last.clt, last.dev).res
          = MapResult([f \in Fields |-> IF f = "name" THEN prev.hm[f]
                                       ELSE prev.pre.fields[f]])
    /\ Lookup(store, last.key) = last.pre

\* The keys built from the entity kind and the identifier of logged call c.
OwnKeys(c) ==
    IF c.fn = "remove_user" THEN {c.key, get_del_user_key(c.clt)}
    ELSE {c.key}

\* C22: every accessor call changes at most the keys built from its own
\* entity kind and identifier and leaves every other key as it was
\* (remove_user: users:<id> and del_users:<id> only; remove_devclt_set: not
\* the device records; add_dev2clt_hash and remove_device: not the device
\* list); read and exists calls change no key.
C22_Frame ==
    [][ncalls' # ncalls =>
          /\ Changed(store, store') \subseteq OwnKeys(last')
          /\ last'.fn \in ReadFns \cup ExistsFns => store' = store
          /\ last'.fn \in {"add_dev2clt_hash", "remove_device"} =>
                Lookup(store', get_clt_dev_list_key(last'.clt))
                    = Lookup(store, get_clt_dev_list_key(last'.clt))
          /\ last'.fn \in {"remove_devclt_set", "remove_user"} =>
                \A dev \in DevIDs :
                    Lookup(store', get_clt_dev_hash_key(last'.clt, dev))
                        = Lookup(store, get_clt_dev_hash_key(last'.clt, dev))
          /\ last'.fn = "remove_user" =>
                /\ Lookup(store', get_user_conts_key(last'.clt))
                      = Lookup(store, get_user_conts_key(last'.clt))
                /\ Lookup(store', get_clt_dev_list_key(last'.clt))
                      = Lookup(store, get_clt_dev_list_key(last'.clt))]_vars

\* C22 witness: a client's device list was written, then a device record of
\* the same client was written, and the list is as it was.
C22_Witness ==
    /\ prev.fn = "add_dev2clt" /\ Completed(prev)
    /\ last.fn = "add_dev2clt_hash" /\ Completed(last)
    /\ last.clt = prev.clt
    /\ get_devclt_set(store, prev.clt).res = SetResult(prev.hs)
    /\ get_device(store, last.clt, last.dev).res = MapResult(last.hm)

\* C23: an add or a remove called with an empty payload (an empty HashSet
\* for the set functions, an empty HashMap for add_user and
\* add_dev2clt_hash) sends a command with a key and no members; the store
\* rejects it, the call aborts, the store is left as it was and the key is
\* not created.
C23_EmptyPayloadAborts ==
    [][(/\ ncalls' # ncalls
        /\ last'.fn \in AddFns \cup SetDelFns
        /\ last'.hs = {} /\ last'.hm = EmptyMap) =>
          /\ last'.res = Panic
          /\ store' = store
          /\ last'.key \notin DOMAIN store => last'.key \notin DOMAIN store']_vars

\* C23 witness: del_group with an empty set and then add_user with an empty
\* map both aborted, and no key exists.
C23_Witness ==
    /\ prev.fn = "del_group" /\ prev.hs = {} /\ prev.res = Panic
    /\ last.fn = "add_user" /\ last.hm = EmptyMap /\ last.res = Panic
    /\ last.pre = Absent
    /\ DOMAIN store = {}

AllFns == AddFns \cup SetDelFns \cup ReadFns \cup ExistsFns
            \cup RemoveFns \cup {"remove_user"}

\* C19: when the store command fails, every accessor except remove_user
\* aborts the call (the unwrap panics): add, remove and read give no
\* fallback or partial result, the exists_* and whole-key delete functions
\* return neither Err nor Ok(false); remove_user returns the failure as Err
\* and is the only accessor that ever returns Err.
C19_FailureAborts ==
    /\ [](last.res = Err => last.fn = "remove_user")
    /\ [][(ncalls' # ncalls /\ link = "down") =>
            /\ last'.fn \in AllFns
            /\ last'.fn # "remove_user" => last'.res = Panic
            /\ last'.fn = "remove_user" => last'.res = Err]_vars

\* C19 witness: a group was created, the connection went down, and
\* exists_group on that group aborted instead of answering.
C19_Witness ==
    /\ link = "down"
    /\ prev.fn = "add_group" /\ Completed(prev)
    /\ last.fn = "exists_group" /\ SameEntity(prev, last)
    /\ last.pre # Absent
    /\ last.res = Panic

----------------------------------------------------------------------------
(* The claims about concurrent accessor calls *)

\* The command of arrival a reached the store between the start and the
\* completion of a remove_user call on the same id by another task.
DuringRemoveUser(a) ==
    \E o \in a.others :
        o.req.fn = "remove_user" /\ o.req.clt = a.req.clt

\* The same, for a remove_user call that began while users:<id> existed.
DuringRemoveOfExistingUser(a) ==
    \E o \in a.others :
        /\ o.req.fn = "remove_user" /\ o.req.clt = a.req.clt
        /\ get_user_key(o.req.clt) \in DOMAIN o.start

UserReadFns == {"exists_user", "get_user"}

\* C17, as stated: a read that reaches the store between the start and the
\* completion of a concurrent remove_user(id) observes neither users:<id> nor
\* del_users:<id> as existing.
C17_ReaderSeesNeitherKey ==
    \A i \in DOMAIN arrivals :
        (arrivals[i].req.fn \in UserReadFns /\ DuringRemoveUser(arrivals[i])) =>
            /\ get_user_key(arrivals[i].req.clt) \notin DOMAIN arrivals[i].pre
            /\ get_del_user_key(arrivals[i].req.clt)
                  \notin DOMAIN arrivals[i].pre
            /\ arrivals[i].res \in {Ok(FALSE), MapResult(EmptyMap)}

\* C17, amended: a read that reaches the store between the start and the
\* completion of a concurrent remove_user(id) on an existing user never
\* observes neither key: the rename is one store command, so the read sees
\* either users:<id> still existing, or users:<id> gone and del_users:<id>
\* holding a whole record; exists_user and get_user answer accordingly.
C17_ReaderSeesOneKey ==
    \A i \in DOMAIN arrivals :
        (/\ arrivals[i].req.fn \in UserReadFns
         /\ DuringRemoveOfExistingUser(arrivals[i])) =>
            /\ \/ get_user_key(arrivals[i].req.clt) \in DOMAIN arrivals[i].pre
               \/ Lookup(arrivals[i].pre,
                         get_del_user_key(arrivals[i].req.clt)).fields
                     \in UserRecords
            /\ arrivals[i].req.fn = "exists_user" =>
                  arrivals[i].res
                    = Ok(get_user_key(arrivals[i].req.clt)
                            \in DOMAIN arrivals[i].pre)
            /\ arrivals[i].req.fn = "get_user" =>
                  arrivals[i].res
                    = MapResult(Lookup(arrivals[i].pre,
                                  get_user_key(arrivals[i].req.clt)).fields)

\* C17 witness: while a remove_user call on an existing user was between its
\* start and its completion, exists_user of another task answered true; the
\* rename has since succeeded and moved the record.
C17_Witness ==
    \E i \in DOMAIN arrivals, t \in Tasks :
        /\ arrivals[i].req.fn = "exists_user"
        /\ DuringRemoveOfExistingUser(arrivals[i])
        /\ arrivals[i].res = Ok(TRUE)
        /\ t # arrivals[i].t
        /\ treq[t].fn = "remove_user" /\ tpc[t] = "idle" /\ tret[t] = Ok(TRUE)
        /\ get_user_key(treq[t].clt) \notin DOMAIN store
        /\ get_del_user_key(treq[t].clt) \in DOMAIN store

\* The keyspace right after the i-th command to reach the store was executed.
StoreAfter(i) == IF i < Len(arrivals) THEN arrivals[i + 1].pre ELSE store

\* Arrivals i-1 and i are an add_group and a del_group of two tasks, on the
\* same group with the same members, that were in flight at the same time.
ConcurrentAddRemove(i) ==
    /\ i > 1
    /\ arrivals[i - 1].t # arrivals[i].t
    /\ {arrivals[i - 1].req.fn, arrivals[i].req.fn} = {"add_group", "del_group"}
    /\ arrivals[i - 1].req.clt = arrivals[i].req.clt
    /\ arrivals[i - 1].req.hs = arrivals[i].req.hs
    /\ \E o \in arrivals[i - 1].others : o.req = arrivals[i].req

GroupMembers(st, clt) == SetOfReply(Lookup(st, get_group_key(clt)).members)

\* C18: when add(id, P) and remove(id, P) on the same set are issued
\* concurrently, each is executed whole, the contents afterwards are those of
\* the two commands applied in the order they reached the store, and the set
\* ends holding all of P (the add arrived last) or none of P (the remove
\* arrived last), never a part of P.
C18_LastArrivalWins ==
    \A i \in DOMAIN arrivals :
        ConcurrentAddRemove(i) =>
            /\ arrivals[i].pre
                  = Exec(arrivals[i - 1].pre, arrivals[i - 1].req).store
            /\ StoreAfter(i) = Exec(arrivals[i].pre, arrivals[i].req).store
            /\ arrivals[i].req.fn = "add_group" =>
                  GroupMembers(StoreAfter(i), arrivals[i].req.clt)
                    = GroupMembers(arrivals[i - 1].pre, arrivals[i].req.clt)
                        \cup arrivals[i].req.hs
            /\ arrivals[i].req.fn = "del_group" =>
                  GroupMembers(StoreAfter(i), arrivals[i].req.clt)
                    = GroupMembers(arrivals[i - 1].pre, arrivals[i].req.clt)
                        \ arrivals[i].req.hs
            /\ \/ arrivals[i].req.hs
                    \subseteq GroupMembers(StoreAfter(i), arrivals[i].req.clt)
               \/ arrivals[i].req.hs
                    \cap GroupMembers(StoreAfter(i), arrivals[i].req.clt) = {}

\* C18 witness: on a group that has a member, add {456, 789} and remove
\* {456, 789} were in flight together; the remove reached the store first,
\* the add last, and the group holds both members.
C18_Witness ==
    /\ Len(arrivals) = 3
    /\ ConcurrentAddRemove(3)
    /\ arrivals[2].pre # arrivals[1].pre
    /\ arrivals[2].req.fn = "del_group"
    /\ arrivals[3].req.fn = "add_group"
    /\ arrivals[3].req.hs = {456, 789}
    /\ arrivals[3].pre = arrivals[1].pre
    /\ GroupMembers(store, arrivals[3].req.clt) = {456, 789}

----------------------------------------------------------------------------
(* The claims about the connection provider *)

ModGetters == {"get_redis_dbmanager", "get_redis_client", "get_redis_connect"}

\* C7, as stated: once one init_redis_database call has succeeded, every
\* later init_redis_database call returns Ok with the memoized manager,
\* whatever URL it is given.
C7_LaterInitReturnsMemo ==
    \A t \in Tasks :
        (ret[t].fn = "init_redis_database" /\ ret[t].seen.some) =>
            (ret[t].tag = "ok" /\ ret[t].mgr = ret[t].seen)

\* C8, as stated: once the manager is memoized, a later init_redis_database
\* call opens no new client and no new connection.
C8_LaterInitOpensNothing ==
    [][\A t \in Tasks :
          (/\ pc[t] \in {"idle", "connect"}
           /\ pc'[t] # pc[t]
           /\ seenAtCall'[t].some) =>
              (nclients' = nclients /\ nconns' = nconns)]_vars

\* C9: get_redis_dbmanager, get_redis_client and get_redis_connect return
\* None while no init_redis_database call has succeeded and Some of the
\* memoized manager (its client, its connection) afterwards, and change
\* neither the memoized state nor the number of clients and connections.
C9_Getters ==
    [][\A t \in Tasks :
          (ret'[t] # ret[t] /\ ret'[t].fn \in ModGetters) =>
              /\ ret'[t].tag = (IF singleton.some THEN "some" ELSE "none")
              /\ (singleton.some /\ ret'[t].fn = "get_redis_dbmanager") =>
                    ret'[t].mgr = singleton
              /\ (singleton.some /\ ret'[t].fn = "get_redis_client") =>
                    ret'[t].client = singleton.client
              /\ (singleton.some /\ ret'[t].fn = "get_redis_connect") =>
                    ret'[t].connect = singleton.connect
              /\ UNCHANGED <<singleton, nclients, nattempts, nconns>>]_vars

\* C9 witness: one task was handed the memoized connection, the other had
\* been told None before the first init succeeded.
C9_Witness ==
    \E t, u \in Tasks :
        /\ ret[t].fn = "get_redis_connect" /\ ret[t].tag = "some"
        /\ ret[t].connect = singleton.connect /\ singleton.some
        /\ ret[u].fn = "get_redis_dbmanager" /\ ret[u].tag = "none"

\* C10: when no manager is memoized and opening the client or the connection
\* fails, init_redis_database returns Err without a second attempt and the
\* cell stays empty (get_redis_dbmanager still returns None); a later call
\* with a working URL can still succeed.
C10_FailedInit ==
    /\ [](nattempts <= nclients /\ nclients <= ninits)
    /\ [][\A t \in Tasks :
            (/\ ret'[t] # ret[t]
             /\ ret'[t].fn = "init_redis_database"
             /\ ret'[t].tag = "err") =>
                /\ pc'[t] = "idle"
                /\ singleton' = singleton
                /\ ~singleton.some =>
                      get_redis_dbmanager(singleton').tag = "none"]_vars

\* C10 witness: an init call failed while the cell was empty, and a later
\* call stored and returned a manager.
C10_Witness ==
    /\ failedEmpty
    /\ singleton.some
    /\ \E t \in Tasks :
          /\ ret[t].fn = "init_redis_database" /\ ret[t].tag = "ok"
          /\ ~ret[t].seen.some
          /\ ret[t].mgr = singleton

\* C11: under sequential and concurrent init_redis_database calls the
\* memoized manager is written at most once and never replaced: a call that
\* reaches get_or_init on a full cell leaves it as it is, and every call that
\* returns Ok returns the manager the cell holds, which is the one stored by
\* the first caller to store, also when two calls had both opened a
\* connection before either stored.
C11_FirstStoreWins ==
    /\ [](\A t \in Tasks :
            (ret[t].fn = "init_redis_database" /\ ret[t].tag = "ok") =>
                (singleton.some /\ ret[t].mgr = singleton))
    /\ [][singleton.some => singleton' = singleton]_vars

\* C11 witness: two calls each opened a connection of their own before either
\* stored one, both have returned Ok, and both hold the one stored manager.
C11_Witness ==
    \E t, u \in Tasks :
        /\ t # u
        /\ pc[t] = "idle" /\ pc[u] = "idle"
        /\ ret[t].fn = "init_redis_database" /\ ret[t].tag = "ok"
        /\ ret[u].fn = "init_redis_database" /\ ret[u].tag = "ok"
        /\ ~ret[t].seen.some /\ ~ret[u].seen.some
        /\ con_[t] # con_[u] /\ clt_[t] # clt_[u]
        /\ singleton = RedisDBManager(clt_[t], con_[t])
        /\ ret[t].mgr = singleton /\ ret[u].mgr = singleton

====
